---- MODULE Spec2Model ----
(***************************************************************************)
(* Task-management HTTP service (go-corenglish).                           *)
(*                                                                         *)
(* Two components are modelled:                                            *)
(*   - the task handlers and the cache-aware task service over the task    *)
(*     repository (relational store) and the redis list cache; every I/O   *)
(*     call of a handler is one step of a request slot, so requests        *)
(*     interleave between their store and cache calls;                     *)
(*   - the redis rate-limit middleware.                                    *)
(* The package internal/commons/response is not part of the sources; the   *)
(* status codes of its constructors are taken from the specification.      *)
(***************************************************************************)
EXTENDS Integers, Sequences, FiniteSets, TLC

\* ------------------------------------------------------------------ bounds
MaxTasks == 2      \* task ids that can be allocated (uuid.New is fresh)
MaxClock == 1      \* readings of time.Now() for created_at: 0..MaxClock
MaxWrites == 3     \* successful store writes over all users
MaxPage == 2       \* page values requested in the concurrent specification
MaxRows == 3       \* rows of table tasks in the list specification

Users == {"u1", "u2"}
Procs == {"r1", "r2"}          \* concurrently served requests
TaskIds == 1..MaxTasks

\* ------------------------------------------------------- status codes
StatusOK == 200
StatusCreated == 201
StatusBadRequest == 400
StatusNotFound == 404
StatusTooManyRequests == 429
\* response.RepositoryError / response.BadRequestError (package not in src)
RepositoryError == 500
BadRequestError == 400

\* --------------------------------------------------------------- enum
StatusToDo == "TO_DO"
StatusInProgress == "IN_PROGRESS"
StatusDone == "DONE"

IsValid(s) == s = StatusToDo \/ s = StatusInProgress \/ s = StatusDone

\* A Go pointer to a string: <<>> is nil, <<s>> points to s.
Nil == <<>>
Ptr(s) == <<s>>

Max(a, b) == IF a >= b THEN a ELSE b
Min(a, b) == IF a <= b THEN a ELSE b

\* ------------------------------------------------------------ task rows
\* models.Task without updated_at; id 0 is the zero value of a local.
NoTask == [id |-> 0, title |-> "", description |-> Nil, status |-> "",
           user_id |-> "", created_at |-> 0]

\* params.TaskResponse: the row without its user_id.
ToTaskResponse(t) == [id |-> t.id, title |-> t.title, description |-> t.description,
                      status |-> t.status, created_at |-> t.created_at]

\* ---------------------------------------------------- task repository
\* WHERE id = ? AND user_id = ?
GetByID(db, id, userID) == {t \in db : t.id = id /\ t.user_id = userID}

\* WHERE user_id = ? [AND status = ?]
Matching_AnyOwner(db, userID, status) == {t \in db : status = "" \/ t.status = status}
Matching(db, userID, status) ==
    {t \in db : t.user_id = userID /\ (status = "" \/ t.status = status)}

\* ORDER BY created_at DESC: every order of the rows that is non-increasing
\* in created_at; rows with equal created_at come in any order.
Orderings(S) ==
    LET n == Cardinality(S)
    IN  {s \in [1..n -> S] :
            /\ \A i, j \in 1..n : i /= j => s[i] /= s[j]
            /\ \A i, j \in 1..n : i < j => s[i].created_at >= s[j].created_at}

Offset(page, limit) == (page - 1) * limit

\* OFFSET offset LIMIT limit over one ordering.
PageOf(ord, page, limit) ==
    SubSeq(ord, Offset(page, limit) + 1, Min(Offset(page, limit) + limit, Len(ord)))

\* The possible results (rows, total) of GetAll.
GetAll(db, userID, status, page, limit) ==
    {[rows |-> PageOf(ord, page, limit), total |-> Cardinality(Matching(db, userID, status))] :
        ord \in Orderings(Matching(db, userID, status))}

\* gorm Updates(struct): only the non-zero fields of the struct are written,
\* WHERE id = ? AND user_id = ?.
UpdatedRow(row, task) ==
    [row EXCEPT !.title = IF task.title /= "" THEN task.title ELSE @,
                !.description = IF task.description /= Nil THEN task.description ELSE @,
                !.status = IF task.status /= "" THEN task.status ELSE @]

Update(db, task) ==
    {IF t.id = task.id /\ t.user_id = task.user_id THEN UpdatedRow(t, task) ELSE t : t \in db}

Delete(db, id, userID) == db \ GetByID(db, id, userID)

\* ------------------------------------------------------- task service
TotalPages_Floor(total, limit) == total \div limit
\* int(math.Ceil(float64(total) / float64(limit)))
TotalPages(total, limit) ==
    IF total % limit = 0 THEN total \div limit ELSE (total \div limit) + 1

ZeroTasksResponse == [tasks |-> <<>>, total |-> 0, page |-> 0, limit |-> 0, total_pages |-> 0]

\* params.TasksResponse built from a GetAll result.
TasksResponse(r, page, limit) ==
    [tasks |-> [i \in 1..Len(r.rows) |-> ToTaskResponse(r.rows[i])],
     total |-> r.total, page |-> page, limit |-> limit,
     total_pages |-> TotalPages(r.total, limit)]

\* fmt.Sprintf("tasks:%s:%s:%d:%d", ...): the fields hold no ':'.
cacheKeyTasks(userID, status, page, limit) == <<"tasks", userID, status, page, limit>>

\* "rate_limit:" + c.ClientIP()
rateLimitKey(ip) == <<"rate_limit", ip>>

\* SCAN MATCH tasks:<userID>:* ; the pattern is a glob, so a userID "*"
\* stands for every user.
MatchesPattern_Prefix(key, userID) == key[1] = "tasks"
MatchesPattern(key, userID) == key[1] = "tasks" /\ (userID = "*" \/ key[2] = userID)

\* json.Marshal / json.Unmarshal of a TasksResponse; a value that is not
\* the JSON of a TasksResponse does not deserialize.
Marshal(r) == [valid |-> TRUE, json |-> r]
Garbage == [valid |-> FALSE, json |-> ZeroTasksResponse]
Unmarshal_IgnoreErr(v) == [err |-> FALSE, val |-> v.json]
Unmarshal(v) == [err |-> ~v.valid, val |-> v.json]

\* ------------------------------------------------------------ handlers
\* A string is a sequence of characters where its text is parsed.
Digits == <<"0", "1", "2", "3", "4", "5", "6", "7", "8", "9">>
IsDigit(c) == \E i \in 1..10 : Digits[i] = c
DigitVal(c) == (CHOOSE i \in 1..10 : Digits[i] = c) - 1

RECURSIVE Number(_)
Number(s) == IF s = <<>> THEN 0
             ELSE 10 * Number(SubSeq(s, 1, Len(s) - 1)) + DigitVal(s[Len(s)])

\* strconv.Atoi with the error dropped: 0 for a text that is no integer.
Atoi(s) ==
    LET signed == s /= <<>> /\ s[1] \in {"-", "+"}
        body == IF signed THEN Tail(s) ELSE s
    IN  IF body = <<>> \/ \E i \in 1..Len(body) : ~IsDigit(body[i]) THEN 0
        ELSE IF s[1] = "-" THEN 0 - Number(body) ELSE Number(body)

\* strconv.Itoa of a natural number: the text of a query value.
RECURSIVE Itoa(_)
Itoa(n) == IF n < 10 THEN <<Digits[n + 1]>> ELSE Itoa(n \div 10) \o <<Digits[(n % 10) + 1]>>

\* c.DefaultQuery: q is Nil when the URL has no such parameter.
DefaultQuery(q, def) == IF q = Nil THEN def ELSE q[1]

\* TaskHandler.GetTasks: page and limit after strconv.Atoi.
DefaultLimit == 10
MaxLimit == 100
ClampPage(page) == IF page < 1 THEN 1 ELSE page
ClampLimit_NoUpper(limit) == IF limit < 1 THEN DefaultLimit ELSE limit
ClampLimit(limit) == IF limit < 1 \/ limit > MaxLimit THEN DefaultLimit ELSE limit

\* validator: CreateTaskRequest.Title `required`
ValidCreate(title) == title /= ""

\* c.ShouldBindJSON into a *string field: the member of the JSON body is
\* absent, null or a string; encoding/json leaves the pointer nil for an
\* absent member and sets it to nil for null.
JAbsent == <<"absent", "">>
JNull == <<"null", "">>
JString(s) == <<"string", s>>
ShouldBindJSON(j) == IF j[1] = "string" THEN Ptr(j[2]) ELSE Nil

\* validator: UpdateTaskRequest.Status `omitempty,oneof=TO_DO IN_PROGRESS DONE`
\* (a non-nil pointer has a value, so oneof is applied to what it points to)
ValidUpdate_NoOneof(status) == TRUE
ValidUpdate(status) == status = Nil \/ status[1] \in {StatusToDo, StatusInProgress, StatusDone}

\* -------------------------------------------------------------- state
VARIABLES
    tasks,      \* rows of table tasks
    nextId,     \* next id uuid.New hands out
    owner,      \* history: id -> user_id the row was created with
    clock,      \* time.Now() as stored in created_at
    cache,      \* redis keys tasks:...: key -> [val, ver]
    pc,         \* per request slot: the call the request is about to make
    req,        \* per request slot: the request
    loc,        \* per request slot: locals of handler and service
    resp,       \* per request slot: the response written
    storeVer,   \* history: successful store writes per user
    retVer,     \* history: latest store write of a user whose response was sent
    cacheFault  \* history: some invalidation did not delete every key

taskVars == <<tasks, nextId, owner, clock, cache, pc, req, loc, resp, storeVer, retVer, cacheFault>>

NoReq == [op |-> "none", user |-> "", id |-> 0, title |-> Nil, description |-> Nil,
          descJSON |-> JAbsent, status |-> Nil, filter |-> "", page |-> 0, limit |-> 0,
          pageQ |-> Nil, limitQ |-> Nil]
NoLoc == [task |-> NoTask, res |-> ZeroTasksResponse, ver |-> 0, startRet |-> 0,
          read |-> "", setErr |-> FALSE, dbErr |-> FALSE, before |-> NoTask]
NoResp == [code |-> 0, msg |-> "", task |-> ToTaskResponse(NoTask), list |-> ZeroTasksResponse]

ErrResp(code, msg) == [NoResp EXCEPT !.code = code, !.msg = msg]
TaskResp(code, t) == [NoResp EXCEPT !.code = code, !.task = ToTaskResponse(t)]
ListResp(r) == [NoResp EXCEPT !.code = StatusOK, !.list = r]

EmptyCache == [k \in {} |-> [val |-> Garbage, ver |-> 0]]

TaskInit ==
    /\ tasks = {}
    /\ nextId = 1
    /\ owner = [i \in TaskIds |-> ""]
    /\ clock = 0
    /\ cache = EmptyCache
    /\ pc = [p \in Procs |-> "idle"]
    /\ req = [p \in Procs |-> NoReq]
    /\ loc = [p \in Procs |-> NoLoc]
    /\ resp = [p \in Procs |-> NoResp]
    /\ storeVer = [u \in Users |-> 0]
    /\ retVer = [u \in Users |-> 0]
    /\ cacheFault = FALSE

SumVer == LET S == Users IN
    LET RECURSIVE Sum(_)
        Sum(T) == IF T = {} THEN 0 ELSE LET u == CHOOSE x \in T : TRUE IN storeVer[u] + Sum(T \ {u})
    IN Sum(S)

\* writes still allowed: the ones done plus the ones in flight stay within MaxWrites
MayWrite == SumVer + Cardinality({p \in Procs : pc[p] = "update"}) < MaxWrites

Finish(p, r) == /\ pc' = [pc EXCEPT ![p] = "done"]
                /\ resp' = [resp EXCEPT ![p] = r]

IsWrite(op) == op \in {"CreateTask", "UpdateTask", "DeleteTask"}

\* state of the rate limiter (its operations follow the task handlers)
VARIABLES
    redisClient,  \* "nil" when ConnectRedis failed at start-up, else "client"
    now,          \* seconds
    rlKey,        \* redis key rate_limit:<ip>: [n, exp]; n = 0: no key; exp < 0: no TTL
    rpc,          \* per request slot: where the middleware is
    rreq,         \* per request slot: [ip, current, t, failed]
    rresp,        \* per request slot: what the middleware did
    rlHist,       \* history per ip: the requests of the current window
    rlClean       \* history per ip: the window started on a fresh counter, its
                  \* requests came one after another and every redis call succeeded

rateVars == <<redisClient, now, rlKey, rpc, rreq, rresp, rlHist, rlClean>>

\* state of the auth middleware, the identity store and the auth service,
\* and the invalidation worker (their operations follow the rate limiter)
VARIABLES
    actx,       \* per request slot: gin context of a request to /api/v1/tasks
    users,      \* rows of table users
    nextUser,   \* next id uuid.New hands out to a user
    upc,        \* per request slot: the call Register or Login is about to make
    ureq,       \* per request slot: the Register or Login request
    uresp,      \* per request slot: the response written
    chan,       \* messages published on tasks:invalidate, not yet received
    wrk         \* history: what the worker's last handleMessage did

authVars == <<actx>>
userVars == <<users, nextUser, upc, ureq, uresp>>
workVars == <<chan, wrk>>

\* state of the global middleware chain of the router
VARIABLES
    chain       \* per request slot: the request and how far the chain has run

chainVars == <<chain>>

\* state of the in-memory rate limiter (InMemoryRateLimiter)
VARIABLES
    limiters,   \* rl.limiters: client IP -> limiter, 0 for no entry
    bucket,     \* the rate.Limiter objects made so far: tokens left in each
    mpc,        \* per request slot: where the middleware is
    mreq,       \* per request slot: the IP, the limiter it holds, the outcome
    mrace       \* history: the map was read or written while it was being written

memVars == <<limiters, bucket, mpc, mreq, mrace>>
moreVars == <<authVars, userVars, workVars, chainVars, memVars>>

\* stage "off": the middleware is driven on its own, without the chain;
\* ran: the global middleware entered so far, outermost first.
NoChain == [stage |-> "off", method |-> "", route |-> "", code |-> 0, ran |-> <<>>]
IdleChain == [NoChain EXCEPT !.stage = "idle"]

\* tasks.Use(AuthMiddleware): the routes of group /api/v1/tasks
Protected(route) == route = "/api/v1/tasks/:id"

\* Gin enters a middleware when the one before it called c.Next().
EntersRateLimit(p) == chain[p].stage \in {"off", "rate"}
EntersAuth(p) ==
    \/ chain[p].stage = "off"
    \/ /\ chain[p].stage = "rate" /\ Protected(chain[p].route)
       /\ rpc[p] = "done" /\ rresp[p].next

\* ------------------------------------------------------------- actions
\* A task handler is entered by c.Next() of AuthMiddleware and reads the
\* user id from the context: c.Get("user_id").
Ready(p, userID) ==
    IF actx[p].stage = "off" THEN pc[p] = "idle"
    ELSE pc[p] = "handler" /\ userID = actx[p].user_id

\* POST /tasks: TaskHandler.CreateTask, taskService.CreateTask up to and
\* including taskRepo.Create.
CreateTask(p, userID, title, description, dbOk) ==
    /\ Ready(p, userID)
    /\ req' = [req EXCEPT ![p] = [NoReq EXCEPT !.op = "CreateTask", !.user = userID,
                                        !.title = Ptr(title), !.description = description]]
    /\ IF ~ValidCreate(title)
       THEN /\ Finish(p, ErrResp(StatusBadRequest, "Validation failed"))
            /\ UNCHANGED <<tasks, nextId, owner, storeVer, loc>>
       ELSE /\ MayWrite
            /\ nextId <= MaxTasks
            /\ IF ~dbOk
               THEN /\ Finish(p, ErrResp(RepositoryError, "failed to create task"))
                    /\ loc' = [loc EXCEPT ![p].dbErr = TRUE]
                    /\ UNCHANGED <<tasks, nextId, owner, storeVer>>
               ELSE LET task == [id |-> nextId, title |-> title, description |-> description,
                                 status |-> StatusToDo, user_id |-> userID, created_at |-> clock]
                    IN  /\ tasks' = tasks \cup {task}
                        /\ nextId' = nextId + 1
                        /\ owner' = [owner EXCEPT ![nextId] = userID]
                        /\ storeVer' = [storeVer EXCEPT ![userID] = @ + 1]
                        /\ loc' = [loc EXCEPT ![p].task = task, ![p].ver = storeVer[userID] + 1]
                        /\ pc' = [pc EXCEPT ![p] = "invalidate"]
                        /\ UNCHANGED resp
    /\ UNCHANGED <<clock, cache, retVer, cacheFault, rateVars, moreVars>>

\* taskService.invalidateUserTasksCache (SCAN + DEL, errors ignored) and the
\* response of the write that called it. deleted: the keys the DELs removed,
\* all the matching ones unless a redis call failed.
invalidateUserTasksCache(p, redisOk, deleted) ==
    /\ pc[p] = "invalidate"
    /\ LET matching == {k \in DOMAIN cache : MatchesPattern(k, req[p].user)}
       IN  /\ deleted \subseteq matching
           /\ redisOk => deleted = matching
           /\ cache' = [k \in DOMAIN cache \ deleted |-> cache[k]]
           /\ cacheFault' = (cacheFault \/ deleted /= matching)
    /\ rlKey' = [ip \in DOMAIN rlKey |->
                    IF MatchesPattern(rateLimitKey(ip), req[p].user) THEN [n |-> 0, exp |-> 0 - 1]
                    ELSE rlKey[ip]]
    /\ Finish(p, IF req[p].op = "CreateTask" THEN TaskResp(StatusCreated, loc[p].task)
                 ELSE IF req[p].op = "UpdateTask" THEN TaskResp(StatusOK, loc[p].task)
                 ELSE [NoResp EXCEPT !.code = StatusOK, !.msg = "Success delete task"])
    /\ UNCHANGED <<tasks, nextId, owner, clock, req, loc, storeVer, retVer,
                   redisClient, now, rpc, rreq, rresp, rlHist, rlClean, moreVars>>

\* GET /tasks/:id: TaskHandler.GetTask, taskService.GetTask.
GetTask(p, userID, id, dbOk) ==
    /\ Ready(p, userID)
    /\ req' = [req EXCEPT ![p] = [NoReq EXCEPT !.op = "GetTask", !.user = userID, !.id = id]]
    /\ loc' = [loc EXCEPT ![p].dbErr = ~dbOk]
    /\ IF ~dbOk \/ GetByID(tasks, id, userID) = {}
       THEN Finish(p, ErrResp(RepositoryError, "failed to get task"))
       ELSE Finish(p, TaskResp(StatusOK, CHOOSE t \in GetByID(tasks, id, userID) : TRUE))
    /\ UNCHANGED <<tasks, nextId, owner, clock, cache, storeVer, retVer, cacheFault, rateVars, moreVars>>

\* GET /tasks: TaskHandler.GetTasks, taskService.GetTasks up to and including
\* cache.Get. pageQ, limitQ: the query parameters page and limit.
\* cacheOk = FALSE: the GET fails (connection error, timeout).
GetTasks(p, userID, status, pageQ, limitQ, cacheOk) ==
    /\ Ready(p, userID)
    /\ LET page == ClampPage(Atoi(DefaultQuery(pageQ, <<"1">>)))
           limit == ClampLimit(Atoi(DefaultQuery(limitQ, <<"1", "0">>)))
           key == cacheKeyTasks(userID, status, page, limit)
       IN  /\ req' = [req EXCEPT ![p] = [NoReq EXCEPT !.op = "GetTasks", !.user = userID,
                               !.filter = status, !.page = page, !.limit = limit,
                               !.pageQ = pageQ, !.limitQ = limitQ]]
           /\ IF status /= "" /\ ~IsValid(status)
              THEN /\ Finish(p, ErrResp(BadRequestError, "invalid status"))
                   /\ UNCHANGED loc
              ELSE LET got == IF ~cacheOk THEN "error"
                              ELSE IF key \notin DOMAIN cache THEN "miss"
                              ELSE IF cache[key].val = Garbage THEN "corrupt"
                              ELSE "hit"
                   IN  IF cacheOk /\ key \in DOMAIN cache /\ ~Unmarshal(cache[key].val).err
                       THEN /\ Finish(p, ListResp(Unmarshal(cache[key].val).val))
                            /\ loc' = [loc EXCEPT ![p].read = got, ![p].ver = cache[key].ver,
                                                  ![p].startRet = retVer[userID]]
                       ELSE /\ pc' = [pc EXCEPT ![p] = "getall"]
                            /\ loc' = [loc EXCEPT ![p].read = got,
                                                  ![p].startRet = retVer[userID]]
                            /\ UNCHANGED resp
    /\ UNCHANGED <<tasks, nextId, owner, clock, cache, storeVer, retVer, cacheFault, rateVars, moreVars>>

\* taskService.GetTasks: taskRepo.GetAll and the building of the response.
GetTasksStore(p, dbOk) ==
    /\ pc[p] = "getall"
    /\ IF ~dbOk
       THEN /\ Finish(p, ErrResp(RepositoryError, "failed to get tasks"))
            /\ loc' = [loc EXCEPT ![p].dbErr = TRUE]
       ELSE /\ \E r \in GetAll(tasks, req[p].user, req[p].filter, req[p].page, req[p].limit) :
                 loc' = [loc EXCEPT ![p].res = TasksResponse(r, req[p].page, req[p].limit),
                                    ![p].ver = storeVer[req[p].user]]
            /\ pc' = [pc EXCEPT ![p] = "cacheset"]
            /\ UNCHANGED resp
    /\ UNCHANGED <<tasks, nextId, owner, clock, cache, req, storeVer, retVer, cacheFault, rateVars, moreVars>>

\* taskService.GetTasks: cache.Set (its error is dropped) and the response.
GetTasksCacheSet(p, cacheOk) ==
    /\ pc[p] = "cacheset"
    /\ LET key == cacheKeyTasks(req[p].user, req[p].filter, req[p].page, req[p].limit)
       IN  cache' = IF cacheOk
                    THEN (key :> [val |-> Marshal(loc[p].res), ver |-> loc[p].ver]) @@ cache
                    ELSE cache
    /\ Finish(p, ListResp(loc[p].res))
    /\ loc' = [loc EXCEPT ![p].setErr = ~cacheOk]
    /\ UNCHANGED <<tasks, nextId, owner, clock, req, storeVer, retVer, cacheFault, rateVars, moreVars>>

\* PATCH /tasks/:id: TaskHandler.UpdateTask, taskService.UpdateTask up to the
\* call of taskRepo.Update: validation, taskRepo.GetByID, the fields applied
\* to the row read.
UpdateTask(p, userID, id, title, descJSON, status, dbOk) ==
    LET description == ShouldBindJSON(descJSON) IN
    /\ Ready(p, userID)
    /\ req' = [req EXCEPT ![p] = [NoReq EXCEPT !.op = "UpdateTask", !.user = userID, !.id = id,
                        !.title = title, !.description = description,
                        !.descJSON = descJSON, !.status = status]]
    /\ IF ~ValidUpdate(status)
       THEN /\ Finish(p, ErrResp(StatusBadRequest, "Validation failed"))
            /\ UNCHANGED loc
       ELSE IF ~dbOk \/ GetByID(tasks, id, userID) = {}
       THEN /\ Finish(p, ErrResp(RepositoryError, "failed to get task for update"))
            /\ loc' = [loc EXCEPT ![p].dbErr = ~dbOk]
       ELSE LET t0 == CHOOSE t \in GetByID(tasks, id, userID) : TRUE
                t1 == IF title /= Nil THEN [t0 EXCEPT !.title = title[1]] ELSE t0
                t2 == IF description /= Nil THEN [t1 EXCEPT !.description = description] ELSE t1
            IN  IF status /= Nil /\ ~IsValid(status[1])
                THEN /\ Finish(p, ErrResp(BadRequestError, "invalid status"))
                     /\ UNCHANGED loc
                ELSE /\ MayWrite
                     /\ loc' = [loc EXCEPT ![p].task =
                                   IF status /= Nil THEN [t2 EXCEPT !.status = status[1]] ELSE t2]
                     /\ pc' = [pc EXCEPT ![p] = "update"]
                     /\ UNCHANGED resp
    /\ UNCHANGED <<tasks, nextId, owner, clock, cache, storeVer, retVer, cacheFault, rateVars, moreVars>>

\* taskService.UpdateTask: taskRepo.Update of the row held by the request.
UpdateTaskWrite(p, dbOk) ==
    /\ pc[p] = "update"
    /\ LET task == loc[p].task
       IN  IF ~dbOk \/ GetByID(tasks, task.id, task.user_id) = {}
           THEN /\ Finish(p, ErrResp(RepositoryError, "failed to update task"))
                /\ loc' = [loc EXCEPT ![p].dbErr = ~dbOk]
                /\ UNCHANGED <<tasks, storeVer>>
           ELSE /\ tasks' = Update(tasks, task)
                /\ storeVer' = [storeVer EXCEPT ![task.user_id] = @ + 1]
                /\ loc' = [loc EXCEPT ![p].ver = storeVer[task.user_id] + 1,
                                      ![p].before = CHOOSE t \in GetByID(tasks, task.id, task.user_id) : TRUE]
                /\ pc' = [pc EXCEPT ![p] = "invalidate"]
                /\ UNCHANGED resp
    /\ UNCHANGED <<nextId, owner, clock, cache, req, retVer, cacheFault, rateVars, moreVars>>

\* DELETE /tasks/:id: TaskHandler.DeleteTask, taskService.DeleteTask up to
\* and including taskRepo.Delete.
DeleteTask(p, userID, id, dbOk) ==
    /\ Ready(p, userID)
    /\ MayWrite
    /\ req' = [req EXCEPT ![p] = [NoReq EXCEPT !.op = "DeleteTask", !.user = userID, !.id = id]]
    /\ IF ~dbOk \/ GetByID(tasks, id, userID) = {}
       THEN /\ Finish(p, ErrResp(RepositoryError, "failed to delete task"))
            /\ loc' = [loc EXCEPT ![p].dbErr = ~dbOk]
            /\ UNCHANGED <<tasks, storeVer>>
       ELSE /\ tasks' = Delete(tasks, id, userID)
            /\ storeVer' = [storeVer EXCEPT ![userID] = @ + 1]
            /\ loc' = [loc EXCEPT ![p].ver = storeVer[userID] + 1]
            /\ pc' = [pc EXCEPT ![p] = "invalidate"]
            /\ UNCHANGED resp
    /\ UNCHANGED <<nextId, owner, clock, cache, retVer, cacheFault, rateVars, moreVars>>

\* The response reaches the client; the slot serves the next request.
Return(p) ==
    /\ pc[p] = "done"
    /\ retVer' = IF IsWrite(req[p].op) /\ resp[p].code \in {StatusOK, StatusCreated}
                 THEN [retVer EXCEPT ![req[p].user] = Max(@, loc[p].ver)]
                 ELSE retVer
    /\ pc' = [pc EXCEPT ![p] = "idle"]
    /\ req' = [req EXCEPT ![p] = NoReq]
    /\ loc' = [loc EXCEPT ![p] = NoLoc]
    /\ resp' = [resp EXCEPT ![p] = NoResp]
    /\ UNCHANGED <<tasks, nextId, owner, clock, cache, storeVer, cacheFault, rateVars, moreVars>>

\* time.Now() advances.
Tick ==
    /\ clock < MaxClock
    /\ clock' = clock + 1
    /\ UNCHANGED <<tasks, nextId, owner, cache, pc, req, loc, resp, storeVer, retVer, cacheFault, rateVars, moreVars>>

\* redis drops a key whose TTL (cacheTTL) has run out.
CacheExpire(key) ==
    /\ key \in DOMAIN cache
    /\ cache' = [k \in DOMAIN cache \ {key} |-> cache[k]]
    /\ UNCHANGED <<tasks, nextId, owner, clock, pc, req, loc, resp, storeVer, retVer, cacheFault, rateVars, moreVars>>

\* Another redis client overwrites a key with a value that is no TasksResponse.
CacheCorrupt(key) ==
    /\ key \in DOMAIN cache
    /\ cache[key].val /= Garbage
    /\ cache' = [cache EXCEPT ![key] = [val |-> Garbage, ver |-> 0]]
    /\ UNCHANGED <<tasks, nextId, owner, clock, pc, req, loc, resp, storeVer, retVer, cacheFault, rateVars, moreVars>>

\* ------------------------------------------------------ specification
CreateTitles == {"A", ""}
UpdateStatuses == {Nil, Ptr(StatusDone), Ptr("WAT"), Ptr("")}

\* The requests of the users in U served by the slots in P. in: the sets the
\* inputs are drawn from (query values, outcomes of the store and cache calls).
Serve(P, U, in) ==
    \/ \E p \in P, u \in U, t \in CreateTitles, ok \in in.db :
            CreateTask(p, u, t, Nil, ok)
    \/ \E p \in P, u \in U, id \in TaskIds, ok \in in.db : GetTask(p, u, id, ok)
    \/ \E p \in P, u \in U, f \in in.filters, pg \in in.pages, l \in in.limits,
          ok \in in.redis : GetTasks(p, u, f, Ptr(Itoa(pg)), Ptr(Itoa(l)), ok)
    \/ \E p \in P, ok \in in.db : GetTasksStore(p, ok)
    \/ \E p \in P, ok \in in.redis : GetTasksCacheSet(p, ok)
    \/ \E p \in P, u \in U, id \in TaskIds, st \in UpdateStatuses, ok \in in.db :
            UpdateTask(p, u, id, Nil, JAbsent, st, ok)
    \/ \E p \in P, ok \in in.db : UpdateTaskWrite(p, ok)
    \/ \E p \in P, u \in U, id \in TaskIds, ok \in in.db : DeleteTask(p, u, id, ok)
    \/ \E p \in P, ok \in in.redis, d \in SUBSET (DOMAIN cache) :
            invalidateUserTasksCache(p, ok, d)
    \/ \E p \in P : Return(p)
    \/ \E k \in DOMAIN cache : CacheExpire(k)

\* ======================================================== rate limiter
\* cfg.RateLimitRequests and cfg.RateLimitWindow (seconds), scaled down.
RateLimitRequests == 2
RateLimitWindow == 2
MaxTime == 3       \* readings of the clock of redis and the middleware
MaxHist == 3       \* requests per window the history keeps

IPs == {"ip1"}

NoKey == [n |-> 0, exp |-> 0 - 1]
NoRReq == [ip |-> "", current |-> 0, t |-> 0, failed |-> FALSE]
\* code 0: the middleware wrote no response; next: c.Next() was called;
\* the X-RateLimit-* headers, Nil when not set.
NoRResp == [code |-> 0, next |-> FALSE, limit |-> Nil, remaining |-> Nil, reset |-> Nil]

\* c.Next() with nothing written: lines 143-146, 152-155, 172-175.
FailOpen_Abort == [NoRResp EXCEPT !.code = 500]
FailOpen == [NoRResp EXCEPT !.next = TRUE]

\* c.JSON(429, ...); c.Abort()
Reject == [NoRResp EXCEPT !.code = StatusTooManyRequests]

\* redisClient.Get(ctx, key).Int(): [err, val]; a missing key is redis.Nil.
RedisGetInt(k, ok) ==
    IF ~ok THEN [err |-> "other", val |-> 0]
    ELSE IF k.n = 0 THEN [err |-> "nil", val |-> 0]
    ELSE [err |-> "none", val |-> k.n]

\* err != nil && err != redis.Nil
IsGetError(r) == r.err /= "none" /\ r.err /= "nil"

\* current >= cfg.RateLimitRequests
OverLimit_Off(current) == current > RateLimitRequests
OverLimit(current) == current >= RateLimitRequests

\* remaining := limit - (current + 1), not below 0
Remaining(current) == Max(RateLimitRequests - (current + 1), 0)

Admit(current) == [code |-> 0, next |-> TRUE, limit |-> Ptr(RateLimitRequests),
                   remaining |-> Ptr(Remaining(current)),
                   reset |-> Ptr(now + RateLimitWindow)]

RateInit ==
    /\ redisClient \in {"nil", "client"}
    /\ now = 0
    /\ rlKey = [ip \in IPs |-> NoKey]
    /\ rpc = [p \in Procs |-> "idle"]
    /\ rreq = [p \in Procs |-> NoRReq]
    /\ rresp = [p \in Procs |-> NoRResp]
    /\ rlHist = [ip \in IPs |-> <<>>]
    /\ rlClean = [ip \in IPs |-> FALSE]

First(h) == IF h = <<>> THEN h ELSE <<h[1]>>

\* history: the request that arrived at t ended with response r; of a
\* window that is not clean only the first request (its start) is kept
Push(h, t, r, clean) ==
    LET h1 == IF Len(h) < MaxHist
              THEN Append(h, [t |-> t, out |-> IF r.next THEN "next" ELSE "abort"])
              ELSE h
    IN  IF clean THEN h1 ELSE First(h1)

RFinish(p, r) == /\ rpc' = [rpc EXCEPT ![p] = "done"]
                 /\ rresp' = [rresp EXCEPT ![p] = r]

\* RateLimitMiddleware up to and including redisClient.Get.
RateLimitMiddleware(p, ip, getOk) ==
    /\ EntersRateLimit(p)
    /\ rpc[p] = "idle"
    /\ LET r == RedisGetInt(rlKey[ip], getOk)
           failed == redisClient = "nil" \/ IsGetError(r)
           overlap == \E q \in Procs \ {p} : rpc[q] = "incr" /\ rreq[q].ip = ip
           newWindow == rlHist[ip] = <<>> \/ now - rlHist[ip][1].t >= RateLimitWindow
           hist == IF newWindow THEN <<>> ELSE rlHist[ip]
           clean == /\ IF newWindow THEN rlKey[ip].n = 0 ELSE rlClean[ip]
                    /\ ~overlap
                    /\ redisClient /= "nil" /\ getOk
       IN  /\ rreq' = [rreq EXCEPT ![p] = [ip |-> ip, current |-> r.val, t |-> now,
                                           failed |-> failed]]
           /\ rlClean' = [rlClean EXCEPT ![ip] = clean]
           /\ IF redisClient = "nil" \/ IsGetError(r)
              THEN /\ RFinish(p, FailOpen)
                   /\ rlHist' = [rlHist EXCEPT ![ip] = Push(hist, now, FailOpen, FALSE)]
              ELSE IF OverLimit(r.val)
              THEN /\ RFinish(p, Reject)
                   /\ rlHist' = [rlHist EXCEPT ![ip] = Push(hist, now, Reject, clean)]
              ELSE /\ rpc' = [rpc EXCEPT ![p] = "incr"]
                   /\ rlHist' = [rlHist EXCEPT ![ip] = IF clean THEN hist ELSE First(hist)]
                   /\ UNCHANGED rresp
    /\ UNCHANGED <<redisClient, now, rlKey, taskVars, moreVars>>

\* RateLimitMiddleware: the INCR + EXPIRE pipeline, the headers, c.Next().
\* applied: what redis did of a pipeline whose Exec returned an error.
RateLimitIncr(p, execOk, applied) ==
    /\ rpc[p] = "incr"
    /\ LET ip == rreq[p].ip
           k == rlKey[ip]
           r == IF execOk THEN Admit(rreq[p].current) ELSE FailOpen
       IN  /\ execOk => applied = "both"
           /\ rlKey' = [rlKey EXCEPT ![ip] =
                  IF applied = "both" THEN [n |-> k.n + 1, exp |-> now + RateLimitWindow]
                  ELSE IF applied = "incr" THEN [n |-> k.n + 1, exp |-> k.exp]
                  ELSE k]
           /\ RFinish(p, r)
           /\ rlHist' = [rlHist EXCEPT ![ip] = Push(@, rreq[p].t, r, rlClean[ip] /\ execOk)]
           /\ rreq' = [rreq EXCEPT ![p].failed = ~execOk]
           /\ rlClean' = [rlClean EXCEPT ![ip] = @ /\ execOk]
    /\ UNCHANGED <<redisClient, now, taskVars, moreVars>>

\* The request leaves the middleware chain.
RateReturn(p) ==
    /\ rpc[p] = "done"
    /\ rpc' = [rpc EXCEPT ![p] = "idle"]
    /\ rreq' = [rreq EXCEPT ![p] = NoRReq]
    /\ rresp' = [rresp EXCEPT ![p] = NoRResp]
    /\ UNCHANGED <<redisClient, now, rlKey, rlHist, rlClean, taskVars, moreVars>>

\* The TTL that pipe.Expire gave key k has run out at time t.
Expired_Never(k, t) == FALSE
Expired(k, t) == k.exp = t

\* A second passes; redis drops the keys whose TTL has run out.
RateTick ==
    /\ now < MaxTime
    /\ now' = now + 1
    /\ rlKey' = [ip \in IPs |-> IF Expired(rlKey[ip], now + 1) THEN NoKey ELSE rlKey[ip]]
    /\ UNCHANGED <<redisClient, rpc, rreq, rresp, rlHist, rlClean, taskVars, moreVars>>

RateIdle ==
    /\ redisClient = "client"
    /\ now = 0
    /\ rlKey = [ip \in IPs |-> NoKey]
    /\ rpc = [p \in Procs |-> "idle"]
    /\ rreq = [p \in Procs |-> NoRReq]
    /\ rresp = [p \in Procs |-> NoRResp]
    /\ rlHist = [ip \in IPs |-> <<>>]
    /\ rlClean = [ip \in IPs |-> FALSE]

\* ====================================================== auth middleware
MaxHeader == 3     \* pieces of an Authorization header value

StatusUnauthorized == 401

\* An Authorization header value is a sequence of pieces, none of which
\* holds part of another: the text "Bearer ", the text "Basic ", and JWTs.
\* The empty sequence is the empty string c.GetHeader returns when the
\* header is missing.
Bearer == "Bearer "
HeaderPieces == {Bearer, "Basic ", "jwt_u1", "jwt_u2", "jwt_expired", "jwt_sub_x"}

RECURSIVE SeqsUpTo(_, _)
SeqsUpTo(S, n) ==
    IF n = 0 THEN {<<>>}
    ELSE LET R == SeqsUpTo(S, n - 1) IN R \cup {Append(r, x) : r \in R, x \in S}

\* net/http trims the white space around a header value, so no value ends
\* with the space of "Bearer " or "Basic ".
Headers == {h \in SeqsUpTo(HeaderPieces, MaxHeader) :
                h = <<>> \/ h[Len(h)] \notin {Bearer, "Basic "}}

\* strings.Split(s, "Bearer "): the texts between the occurrences.
RECURSIVE Split(_)
Split(s) ==
    IF \A i \in 1..Len(s) : s[i] /= Bearer THEN <<s>>
    ELSE LET i == CHOOSE k \in 1..Len(s) : s[k] = Bearer /\ \A j \in 1..(k - 1) : s[j] /= Bearer
         IN  <<SubSeq(s, 1, i - 1)>> \o Split(SubSeq(s, i + 1, Len(s)))

\* token.ValidateToken (package pkg/token): the payload of a JWT that is
\* signed with the secret and not expired, an error for any other text.
ValidateToken(t) ==
    IF t = <<"jwt_u1">> THEN [err |-> FALSE, AuthId |-> "u1"]
    ELSE IF t = <<"jwt_u2">> THEN [err |-> FALSE, AuthId |-> "u2"]
    ELSE IF t = <<"jwt_sub_x">> THEN [err |-> FALSE, AuthId |-> "x"]
    ELSE [err |-> TRUE, AuthId |-> ""]

\* uuid.Parse(payload.AuthId)
UuidParse(id) == [err |-> id \notin Users, val |-> id]

NoCtx == [stage |-> "idle", header |-> <<>>, validated |-> FALSE, user_id |-> "",
          code |-> 0, msg |-> ""]
\* the context in the specifications that leave the middleware out: the
\* handler is entered with the authenticated user's id
OffCtx == [NoCtx EXCEPT !.stage = "off"]

Unauthorized(h, validated, msg) ==
    [NoCtx EXCEPT !.stage = "abort", !.header = h, !.validated = validated,
                  !.code = StatusUnauthorized, !.msg = msg]

\* c.Set("user_id", userID): the id parsed from the payload.
CtxUserID_Fixed(payload) == "u1"
CtxUserID(payload) == UuidParse(payload.AuthId).val

\* The decision of AuthMiddleware on a header value.
AuthOutcome(h) ==
    IF h = <<>> THEN Unauthorized(h, FALSE, "Authorization header is required")
    ELSE LET bearerToken == Split(h) IN
         IF Len(bearerToken) /= 2 THEN Unauthorized(h, FALSE, "len token must be 2")
         ELSE LET payload == ValidateToken(bearerToken[2]) IN
              IF payload.err THEN Unauthorized(h, TRUE, "invalid token")
              ELSE IF UuidParse(payload.AuthId).err
                   THEN Unauthorized(h, TRUE, "Invalid user ID in token")
                   ELSE [NoCtx EXCEPT !.stage = "next", !.header = h, !.validated = TRUE,
                                      !.user_id = CtxUserID(payload)]

\* AuthMiddleware on a request to a route of /api/v1/tasks: c.Set("user_id")
\* and c.Next() hand the request to the route's handler, or the request is
\* aborted with 401.
AuthMiddleware(p, h) ==
    /\ EntersAuth(p)
    /\ pc[p] = "idle"
    /\ actx[p].stage = "idle"
    /\ actx' = [actx EXCEPT ![p] = AuthOutcome(h)]
    /\ pc' = [pc EXCEPT ![p] = IF AuthOutcome(h).stage = "next" THEN "handler" ELSE "idle"]
    /\ UNCHANGED <<tasks, nextId, owner, clock, cache, req, loc, resp, storeVer, retVer,
                   cacheFault, rateVars, userVars, workVars, chainVars, memVars>>

\* The 401, or the response of the handler, has reached the client: gin
\* takes the context back.
AuthReturn(p) ==
    /\ pc[p] = "idle"
    /\ actx[p].stage \in {"abort", "next"}
    /\ actx' = [actx EXCEPT ![p] = NoCtx]
    /\ UNCHANGED <<taskVars, rateVars, userVars, workVars, chainVars, memVars>>

\* ------------------------------------------- start of the other parts
NoUser == [id |-> 0, username |-> "", email |-> "", password |-> <<>>]
\* failed, raced, before: history of the request (a lookup failed; the insert
\* hit a unique index; the stored users when the request came in)
NoUReq == [op |-> "none", username |-> "", email |-> "", password |-> "",
           failed |-> FALSE, raced |-> FALSE, before |-> {}]
NoUResp == [code |-> 0, msg |-> "", token |-> <<>>, user |-> NoUser]
NoWork == [payload |-> "", ok |-> TRUE, removed |-> {}, others |-> FALSE]

UserIdle ==
    /\ users = {}
    /\ nextUser = 1
    /\ upc = [p \in Procs |-> "idle"]
    /\ ureq = [p \in Procs |-> NoUReq]
    /\ uresp = [p \in Procs |-> NoUResp]

WorkIdle == chan = <<>> /\ wrk = NoWork

ChainOff == chain = [p \in Procs |-> NoChain]

\* NewInMemoryRateLimiter(): an empty map
NoMReq == [ip |-> "", limiter |-> 0, out |-> ""]
MemIdle ==
    /\ limiters = [ip \in IPs |-> 0]
    /\ bucket = <<>>
    /\ mpc = [p \in Procs |-> "idle"]
    /\ mreq = [p \in Procs |-> NoMReq]
    /\ mrace = FALSE

\* no auth middleware in front of the handlers, no auth request, no worker
MoreIdle == actx = [p \in Procs |-> OffCtx] /\ UserIdle /\ WorkIdle /\ ChainOff /\ MemIdle

\* ============================================================== worker
MaxChan == 1       \* messages of channel tasks:invalidate not yet received

\* What a message can carry: a user id or any other text.
Payloads == Users \cup {"*"}

\* Another process publishes on tasks:invalidate; Worker.Start receives it.
Publish(payload) ==
    /\ Len(chan) < MaxChan
    /\ chan' = Append(chan, payload)
    /\ UNCHANGED <<wrk, taskVars, rateVars, authVars, userVars, chainVars, memVars>>

\* Worker.handleMessage (SCAN + DEL, errors logged). deleted: the keys the
\* DELs removed, all the matching ones unless a redis call failed. wrk keeps
\* what the last message did: others = keys of other users and a rate_limit
\* key were there when it ran.
handleMessage(redisOk, deleted) ==
    /\ chan /= <<>>
    /\ LET userID == Head(chan)
           matching == {k \in DOMAIN cache : MatchesPattern(k, userID)}
       IN  /\ deleted \subseteq matching
           /\ redisOk => deleted = matching
           /\ cache' = [k \in DOMAIN cache \ deleted |-> cache[k]]
           /\ rlKey' = [ip \in DOMAIN rlKey |->
                           IF MatchesPattern(rateLimitKey(ip), userID)
                           THEN [n |-> 0, exp |-> 0 - 1] ELSE rlKey[ip]]
           /\ wrk' = [payload |-> userID, ok |-> deleted = matching, removed |-> deleted,
                      others |-> /\ \E k \in DOMAIN cache : k[2] /= userID
                                 /\ \E ip \in DOMAIN rlKey : rlKey[ip].n > 0]
    /\ chan' = Tail(chan)
    /\ UNCHANGED <<tasks, nextId, owner, clock, pc, req, loc, resp, storeVer, retVer, cacheFault,
                   redisClient, now, rpc, rreq, rresp, rlHist, rlClean, authVars, userVars, chainVars, memVars>>

\* ================================================= identity and login
MaxUsers == 2      \* user ids that can be allocated (uuid.New is fresh)

GeneralError == 500

Usernames == {"alice", "bob"}
Emails == {"a@x", "b@x"}
Passwords == {"pw1", "pw2"}

\* validator: RegisterRequest / LoginRequest, every field `required`
ValidRegister(username, email, password) == username /= "" /\ email /= "" /\ password /= ""
ValidLogin(email, password) == email /= "" /\ password /= ""

\* bcrypt.GenerateFromPassword / bcrypt.CompareHashAndPassword
Hash(password) == <<"bcrypt", password>>
CompareHashAndPassword(hash, password) == hash = Hash(password)

\* jwtManager.GenerateToken(user.ID) (package pkg/token)
GenerateToken(id) == <<"jwt", id>>
NoToken == <<>>

\* userRepository.GetByEmail / GetByUsername: [err, rows]; err is "" (found),
\* "user not found" or "failed to get user".
GetByEmail(db, email, dbOk) ==
    IF ~dbOk THEN [err |-> "failed to get user", rows |-> {}]
    ELSE IF \E u \in db : u.email = email
         THEN [err |-> "", rows |-> {u \in db : u.email = email}]
         ELSE [err |-> "user not found", rows |-> {}]
GetByUsername(db, username, dbOk) ==
    IF ~dbOk THEN [err |-> "failed to get user", rows |-> {}]
    ELSE IF \E u \in db : u.username = username
         THEN [err |-> "", rows |-> {u \in db : u.username = username}]
         ELSE [err |-> "user not found", rows |-> {}]

\* The unique indexes of table users (User.Username, User.Email:
\* gorm:"uniqueIndex"): the insert of a row that collides fails.
UniqueViolation_None(db, user) == FALSE
UniqueViolation(db, user) ==
    \E u \in db : u.email = user.email \/ u.username = user.username

UErr(code, msg) == [NoUResp EXCEPT !.code = code, !.msg = msg]
UFinish(p, r) == /\ upc' = [upc EXCEPT ![p] = "done"]
                 /\ uresp' = [uresp EXCEPT ![p] = r]

\* Register: the message for an email that is found.
EmailExists_Generic == "registration failed"
EmailExists == "user with this email already exists"
UsernameTaken == "username is already taken"

\* Login: the message for an email that is not found.
LoginNotFound_Reveal == "user not found"
LoginNotFound == "invalid email or password"
LoginMismatch == "invalid email or password"

\* POST /auth/register: AuthHandler.Register, authService.Register up to and
\* including userRepo.GetByEmail.
Register(p, username, email, password, dbOk) ==
    /\ upc[p] = "idle"
    /\ ureq' = [ureq EXCEPT ![p] = [NoUReq EXCEPT !.op = "Register", !.username = username,
                     !.email = email, !.password = password,
                     !.failed = ValidRegister(username, email, password) /\ ~dbOk,
                     !.before = users]]
    /\ IF ~ValidRegister(username, email, password)
       THEN UFinish(p, UErr(StatusBadRequest, "Validation failed"))
       ELSE IF GetByEmail(users, email, dbOk).err = ""
       THEN UFinish(p, UErr(BadRequestError, EmailExists))
       ELSE upc' = [upc EXCEPT ![p] = "username"] /\ UNCHANGED uresp
    /\ UNCHANGED <<users, nextUser, taskVars, rateVars, authVars, workVars, chainVars, memVars>>

\* authService.Register: userRepo.GetByUsername.
RegisterUsername(p, dbOk) ==
    /\ upc[p] = "username"
    /\ ureq' = [ureq EXCEPT ![p].failed = @ \/ ~dbOk]
    /\ IF GetByUsername(users, ureq[p].username, dbOk).err = ""
       THEN UFinish(p, UErr(BadRequestError, UsernameTaken))
       ELSE upc' = [upc EXCEPT ![p] = "create"] /\ UNCHANGED uresp
    /\ UNCHANGED <<users, nextUser, taskVars, rateVars, authVars, workVars, chainVars, memVars>>

\* authService.Register: bcrypt, userRepo.Create, GenerateToken, response.
RegisterCreate(p, hashOk, dbOk, tokenOk) ==
    /\ upc[p] = "create"
    /\ LET user == [id |-> nextUser, username |-> ureq[p].username,
                    email |-> ureq[p].email, password |-> Hash(ureq[p].password)]
       IN  IF ~hashOk
           THEN /\ UFinish(p, UErr(GeneralError, "failed to hash password"))
                /\ UNCHANGED <<users, nextUser, ureq>>
           ELSE IF ~dbOk \/ UniqueViolation(users, user)
           THEN /\ UFinish(p, UErr(RepositoryError, "failed to create user"))
                /\ ureq' = [ureq EXCEPT ![p].raced = dbOk]
                /\ UNCHANGED <<users, nextUser>>
           ELSE /\ nextUser <= MaxUsers
                /\ users' = users \cup {user}
                /\ nextUser' = nextUser + 1
                /\ UNCHANGED ureq
                /\ IF ~tokenOk
                   THEN UFinish(p, UErr(GeneralError, "failed to generate token"))
                   ELSE UFinish(p, [NoUResp EXCEPT !.code = StatusCreated,
                                       !.token = GenerateToken(user.id), !.user = user])
    /\ UNCHANGED <<taskVars, rateVars, authVars, workVars, chainVars, memVars>>

\* POST /auth/login: AuthHandler.Login, authService.Login.
Login(p, email, password, dbOk, tokenOk) ==
    /\ upc[p] = "idle"
    /\ ureq' = [ureq EXCEPT ![p] = [NoUReq EXCEPT !.op = "Login", !.email = email,
                     !.password = password,
                     !.failed = ValidLogin(email, password) /\ ~dbOk,
                     !.before = users]]
    /\ IF ~ValidLogin(email, password)
       THEN UFinish(p, UErr(StatusBadRequest, "Validation failed"))
       ELSE LET r == GetByEmail(users, email, dbOk) IN
            IF r.err /= ""
            THEN UFinish(p, UErr(BadRequestError, LoginNotFound))
            ELSE LET user == CHOOSE u \in r.rows : TRUE IN
                 IF ~CompareHashAndPassword(user.password, password)
                 THEN UFinish(p, UErr(BadRequestError, LoginMismatch))
                 ELSE IF ~tokenOk
                 THEN UFinish(p, UErr(GeneralError, "failed to generate token"))
                 ELSE UFinish(p, [NoUResp EXCEPT !.code = StatusOK,
                                     !.token = GenerateToken(user.id), !.user = user])
    /\ UNCHANGED <<users, nextUser, taskVars, rateVars, authVars, workVars, chainVars, memVars>>

\* The response reaches the client; the slot serves the next request.
UserReturn(p) ==
    /\ upc[p] = "done"
    /\ upc' = [upc EXCEPT ![p] = "idle"]
    /\ ureq' = [ureq EXCEPT ![p] = NoUReq]
    /\ uresp' = [uresp EXCEPT ![p] = NoUResp]
    /\ UNCHANGED <<users, nextUser, taskVars, rateVars, authVars, workVars, chainVars, memVars>>

\* The auth routes served by the slots in P; in: the sets the outcomes of
\* the store, bcrypt and token calls are drawn from.
ServeAuth(P, in) ==
    \/ \E p \in P, n \in Usernames \cup {""}, e \in Emails, w \in {"pw1"}, ok \in in.db :
            Register(p, n, e, w, ok)
    \/ \E p \in P, ok \in in.db : RegisterUsername(p, ok)
    \/ \E p \in P, h \in in.hash, ok \in in.db, t \in in.token : RegisterCreate(p, h, ok, t)
    \/ \E p \in P, e \in Emails \cup {""}, w \in Passwords, ok \in in.db, t \in in.token :
            Login(p, e, w, ok, t)
    \/ \E p \in P : UserReturn(p)

\* =========================================== in-memory rate limiter
\* Some request is in the middle of the map assignment rl.limiters[key] = limiter.
Writing(p) == \E q \in Procs \ {p} : mpc[q] = "storing"

\* InMemoryRateLimitMiddleware up to and including the map read of
\* GetLimiter, and rate.NewLimiter when there is no entry. A read while
\* another goroutine writes the map is a data race: the read sees the old
\* entry or the new one, or the runtime stops the process (fatal error:
\* concurrent map read and map write).
MemGetLimiter(p, ip, raceOutcome) ==
    /\ mpc[p] = "idle"
    /\ mrace' = (mrace \/ Writing(p))
    /\ ~Writing(p) => raceOutcome = "old"
    /\ LET seen == IF raceOutcome = "new"
                   THEN (CHOOSE q \in Procs \ {p} : mpc[q] = "storing")
                   ELSE p
           limiter == IF raceOutcome = "new" THEN mreq[seen].limiter ELSE limiters[ip]
           exists == limiter /= 0
       IN  IF raceOutcome = "fatal"
           THEN /\ mpc' = [q \in Procs |-> "fatal"]
                /\ UNCHANGED <<bucket, mreq>>
           ELSE IF exists
           THEN /\ mreq' = [mreq EXCEPT ![p] = [NoMReq EXCEPT !.ip = ip, !.limiter = limiter]]
                /\ mpc' = [mpc EXCEPT ![p] = "allow"]
                /\ UNCHANGED bucket
           ELSE /\ bucket' = Append(bucket, RateLimitRequests)
                /\ mreq' = [mreq EXCEPT ![p] = [NoMReq EXCEPT !.ip = ip,
                                                     !.limiter = Len(bucket) + 1]]
                /\ mpc' = [mpc EXCEPT ![p] = "store"]
    /\ UNCHANGED <<limiters, taskVars, rateVars, authVars, userVars, workVars, chainVars>>

\* GetLimiter: rl.limiters[key] = limiter begins.
MemStoreBegin(p) ==
    /\ mpc[p] = "store"
    /\ mpc' = [mpc EXCEPT ![p] = "storing"]
    /\ mrace' = (mrace \/ Writing(p))
    /\ UNCHANGED <<limiters, bucket, mreq, taskVars, rateVars, authVars, userVars, workVars,
                   chainVars>>

\* GetLimiter: rl.limiters[key] = limiter is done; return limiter.
MemStoreEnd(p) ==
    /\ mpc[p] = "storing"
    /\ limiters' = [limiters EXCEPT ![mreq[p].ip] = mreq[p].limiter]
    /\ mpc' = [mpc EXCEPT ![p] = "allow"]
    /\ UNCHANGED <<bucket, mreq, mrace, taskVars, rateVars, authVars, userVars, workVars,
                   chainVars>>

\* limiter.Allow() (no time passes: the bucket is not refilled), then the
\* 429 or c.Next().
MemAllow(p) ==
    /\ mpc[p] = "allow"
    /\ LET l == mreq[p].limiter
       IN  IF bucket[l] > 0
           THEN /\ bucket' = [bucket EXCEPT ![l] = @ - 1]
                /\ mreq' = [mreq EXCEPT ![p].out = "next"]
           ELSE /\ mreq' = [mreq EXCEPT ![p].out = "abort"]
                /\ UNCHANGED bucket
    /\ mpc' = [mpc EXCEPT ![p] = "done"]
    /\ UNCHANGED <<limiters, mrace, taskVars, rateVars, authVars, userVars, workVars, chainVars>>

\* The request leaves the middleware chain.
MemReturn(p) ==
    /\ mpc[p] = "done"
    /\ mpc' = [mpc EXCEPT ![p] = "idle"]
    /\ mreq' = [mreq EXCEPT ![p] = NoMReq]
    /\ UNCHANGED <<limiters, bucket, mrace, taskVars, rateVars, authVars, userVars, workVars,
                   chainVars>>

\* ==================================================== middleware chain
StatusNoContent == 204

Methods == {"GET", "OPTIONS"}
Routes == {"/health", "/api/v1/tasks/:id"}

\* CORSMiddleware: c.AbortWithStatus(http.StatusNoContent) and return
CORSAborts_Never(method) == FALSE
CORSAborts(method) == method = "OPTIONS"

\* router.Use(...): LoggerMiddleware, RecoveryMiddleware, CORSMiddleware and
\* SecurityHeadersMiddleware up to the c.Next() that enters the rate limiter.
\* A method with no route runs the same global chain (gin's no-route chain).
ChainStart(p, method, route) ==
    /\ chain[p].stage = "idle"
    /\ chain' = [chain EXCEPT ![p] =
           IF CORSAborts(method)
           THEN [stage |-> "done", method |-> method, route |-> route, code |-> StatusNoContent,
                 ran |-> <<"LoggerMiddleware", "RecoveryMiddleware", "CORSMiddleware">>]
           ELSE [stage |-> "rate", method |-> method, route |-> route, code |-> 0,
                 ran |-> <<"LoggerMiddleware", "RecoveryMiddleware", "CORSMiddleware",
                           "SecurityHeadersMiddleware">>]]
    /\ UNCHANGED <<taskVars, rateVars, authVars, userVars, workVars, memVars>>

\* router.GET("/health"): entered by c.Next() of the rate limiter.
Health(p) ==
    /\ chain[p].stage = "rate" /\ ~Protected(chain[p].route)
    /\ rpc[p] = "done" /\ rresp[p].next
    /\ chain' = [chain EXCEPT ![p].stage = "done", ![p].code = StatusOK]
    /\ UNCHANGED <<taskVars, rateVars, authVars, userVars, workVars, memVars>>

\* The chain unwinds and the response (204, 429, 401 or the handler's)
\* reaches the client; the slot serves the next request.
ChainReturn(p) ==
    /\ \/ chain[p].stage = "done"
       \/ chain[p].stage = "rate" /\ rpc[p] = "done" /\ ~rresp[p].next
       \/ chain[p].stage = "rate" /\ actx[p].stage = "abort"
       \/ chain[p].stage = "rate" /\ pc[p] = "done"
    /\ chain' = [chain EXCEPT ![p] = IdleChain]
    /\ rpc' = [rpc EXCEPT ![p] = "idle"]
    /\ rreq' = [rreq EXCEPT ![p] = NoRReq]
    /\ rresp' = [rresp EXCEPT ![p] = NoRResp]
    /\ actx' = [actx EXCEPT ![p] = NoCtx]
    /\ pc' = [pc EXCEPT ![p] = "idle"]
    /\ req' = [req EXCEPT ![p] = NoReq]
    /\ loc' = [loc EXCEPT ![p] = NoLoc]
    /\ resp' = [resp EXCEPT ![p] = NoResp]
    /\ UNCHANGED <<tasks, nextId, owner, clock, cache, storeVer, retVer, cacheFault,
                   redisClient, now, rlKey, rlHist, rlClean, userVars, workVars, memVars>>

vars == <<taskVars, rateVars, moreVars>>

Init == TaskInit /\ RateIdle /\ MoreIdle

\* One request at a time, two users; store and cache calls may fail.
Next ==
    \/ Serve({"r1"}, Users, [filters |-> {"", "WAT"}, pages |-> {1}, limits |-> {MaxTasks},
                             db |-> BOOLEAN, redis |-> BOOLEAN])
    \/ \E k \in DOMAIN cache : CacheCorrupt(k)
Spec == Init /\ [][Next]_vars

\* Two requests of one user at a time; store and cache calls succeed.
NextConc ==
    \/ Serve(Procs, {"u1"}, [filters |-> {""}, pages |-> 1..MaxPage, limits |-> {1},
                             db |-> {TRUE}, redis |-> {TRUE}])
    \/ Tick
SpecConc == Init /\ [][NextConc]_vars

\* The rate-limit middleware in front of the handlers.
InitRate == TaskInit /\ RateInit /\ MoreIdle
NextRate ==
    \/ \E p \in Procs, ip \in IPs, ok \in BOOLEAN : RateLimitMiddleware(p, ip, ok)
    \/ \E p \in Procs, ok \in BOOLEAN, a \in {"none", "incr", "both"} : RateLimitIncr(p, ok, a)
    \/ \E p \in Procs : RateReturn(p)
    \/ RateTick
SpecRate == InitRate /\ [][NextRate]_vars

\* The list query over every content of table tasks with at most MaxRows
\* rows, as CreateTask and UpdateTask leave them; redis is unreachable, so
\* every list is read from the store.
RowSlot == {NoTask} \cup [id : {0}, title : {"A"}, description : {Nil},
                          status : {StatusToDo, StatusDone}, user_id : Users,
                          created_at : 0..MaxClock]
RowSets ==
    {{[f[i] EXCEPT !.id = i] : i \in {j \in 1..MaxRows : f[j] /= NoTask}} :
        f \in [1..MaxRows -> RowSlot]}

InitList ==
    /\ tasks \in RowSets
    /\ nextId = MaxRows + 1
    /\ owner = [i \in 1..MaxRows |->
                   IF \E t \in tasks : t.id = i
                   THEN (CHOOSE t \in tasks : t.id = i).user_id ELSE "u1"]
    /\ clock = MaxClock
    /\ cache = EmptyCache
    /\ pc = [p \in Procs |-> "idle"]
    /\ req = [p \in Procs |-> NoReq]
    /\ loc = [p \in Procs |-> NoLoc]
    /\ resp = [p \in Procs |-> NoResp]
    /\ storeVer = [u \in Users |-> 0]
    /\ retVer = [u \in Users |-> 0]
    /\ cacheFault = FALSE
    /\ RateIdle
    /\ MoreIdle

NextList ==
    \/ \E f \in {"", StatusDone}, pg \in 1..(MaxPage + 1), l \in 1..MaxPage :
            GetTasks("r1", "u1", f, Ptr(Itoa(pg)), Ptr(Itoa(l)), FALSE)
    \/ GetTasksStore("r1", TRUE)
    \/ GetTasksCacheSet("r1", FALSE)
    \/ Return("r1")
SpecList == InitList /\ [][NextList]_vars

\* PATCH /tasks/:id on a task created with a description: two requests of
\* one user at a time, every field supplied or not; store and redis healthy.
UpdateTitles == {Nil, Ptr("B")}
UpdateDescriptions == {JAbsent, JNull, JString("e")}
NextUpdate ==
    \/ \E p \in Procs : CreateTask(p, "u1", "A", Ptr("d"), TRUE)
    \/ \E p \in Procs, id \in TaskIds, t \in UpdateTitles, d \in UpdateDescriptions,
          st \in {Nil, Ptr(StatusDone)} : UpdateTask(p, "u1", id, t, d, st, TRUE)
    \/ \E p \in Procs : UpdateTaskWrite(p, TRUE)
    \/ \E p \in Procs, d \in SUBSET (DOMAIN cache) : invalidateUserTasksCache(p, TRUE, d)
    \/ \E p \in Procs, id \in TaskIds : GetTask(p, "u1", id, TRUE)
    \/ \E p \in Procs : Return(p)
SpecUpdate == Init /\ [][NextUpdate]_vars

\* The task routes behind AuthMiddleware: one request at a time, any
\* Authorization header; store and redis healthy.
InitAuth ==
    TaskInit /\ RateIdle /\ actx = [p \in Procs |-> NoCtx] /\ UserIdle /\ WorkIdle /\ ChainOff
    /\ MemIdle
NextAuth ==
    \/ \E h \in Headers : AuthMiddleware("r1", h)
    \/ AuthReturn("r1")
    \/ Serve({"r1"}, Users, [filters |-> {""}, pages |-> {1}, limits |-> {MaxTasks},
                             db |-> {TRUE}, redis |-> {TRUE}])
SpecAuth == InitAuth /\ [][NextAuth]_vars

\* The auth routes, one request at a time; store, bcrypt and token calls
\* may fail.
NextUsers == ServeAuth({"r1"}, [db |-> BOOLEAN, hash |-> BOOLEAN, token |-> BOOLEAN])
SpecUsers == Init /\ [][NextUsers]_vars

\* The auth routes, two requests at a time; every call succeeds.
NextUsersConc == ServeAuth(Procs, [db |-> {TRUE}, hash |-> {TRUE}, token |-> {TRUE}])
SpecUsersConc == Init /\ [][NextUsersConc]_vars

\* Two users fill the cache, one address is rate limited, the worker
\* serves tasks:invalidate; store and redis calls succeed.
NextWork ==
    \/ \E u \in Users : CreateTask("r1", u, "A", Nil, TRUE)
    \/ \E u \in Users : GetTasks("r1", u, "", Ptr(Itoa(1)), Ptr(Itoa(MaxTasks)), TRUE)
    \/ GetTasksStore("r1", TRUE)
    \/ GetTasksCacheSet("r1", TRUE)
    \/ \E d \in SUBSET (DOMAIN cache) : invalidateUserTasksCache("r1", TRUE, d)
    \/ Return("r1")
    \/ \E ip \in IPs : RateLimitMiddleware("r2", ip, TRUE)
    \/ RateLimitIncr("r2", TRUE, "both")
    \/ RateReturn("r2")
    \/ \E m \in Payloads : Publish(m)
    \/ \E ok \in BOOLEAN, d \in SUBSET (DOMAIN cache) : handleMessage(ok, d)
SpecWork == Init /\ [][NextWork]_vars

\* GET /tasks with every kind of page and limit parameter: absent, empty,
\* not a number, zero, negative, in range, above MaxLimit.
PageQueries == {Nil, Ptr(<<>>), Ptr(<<"x">>), Ptr(<<"0">>), Ptr(<<"-", "1">>),
                Ptr(<<"2">>), Ptr(<<"1", "0", "1">>)}
LimitQueries == {Nil, Ptr(<<"1", "x">>), Ptr(<<"0">>), Ptr(<<"-", "5">>), Ptr(<<"1">>),
                 Ptr(<<"1", "0", "0">>), Ptr(<<"1", "0", "1">>)}
NextQuery ==
    \/ CreateTask("r1", "u1", "A", Nil, TRUE)
    \/ \E pg \in PageQueries, l \in LimitQueries : GetTasks("r1", "u1", "", pg, l, TRUE)
    \/ GetTasksStore("r1", TRUE)
    \/ GetTasksCacheSet("r1", TRUE)
    \/ \E d \in SUBSET (DOMAIN cache) : invalidateUserTasksCache("r1", TRUE, d)
    \/ Return("r1")
SpecQuery == Init /\ [][NextQuery]_vars

\* Requests through the whole chain, two at a time: OPTIONS and GET on a
\* public and a protected route; redis calls may fail.
ChainHeaders == {<<>>, <<Bearer, "jwt_u1">>, <<Bearer, "jwt_expired">>}
InitChain ==
    /\ TaskInit /\ RateIdle /\ UserIdle /\ WorkIdle /\ MemIdle
    /\ actx = [p \in Procs |-> NoCtx]
    /\ chain = [p \in Procs |-> IdleChain]
NextChain ==
    \/ \E p \in Procs, m \in Methods, r \in Routes : ChainStart(p, m, r)
    \/ \E p \in Procs, ip \in IPs, ok \in BOOLEAN : RateLimitMiddleware(p, ip, ok)
    \/ \E p \in Procs, ok \in BOOLEAN, a \in {"none", "incr", "both"} : RateLimitIncr(p, ok, a)
    \/ \E p \in Procs, h \in ChainHeaders : AuthMiddleware(p, h)
    \/ \E p \in Procs, u \in Users : GetTask(p, u, 1, TRUE)
    \/ \E p \in Procs : Health(p)
    \/ \E p \in Procs : ChainReturn(p)
SpecChain == InitChain /\ [][NextChain]_vars

\* The in-memory limiter in front of the handlers, two requests at a time.
NextMem ==
    \/ \E p \in Procs, ip \in IPs, o \in {"old", "new", "fatal"} : MemGetLimiter(p, ip, o)
    \/ \E p \in Procs : MemStoreBegin(p)
    \/ \E p \in Procs : MemStoreEnd(p)
    \/ \E p \in Procs : MemAllow(p)
    \/ \E p \in Procs : MemReturn(p)
SpecMem == Init /\ [][NextMem]_vars

\* PATCH /tasks/:id, one request at a time, with a title that is absent,
\* empty or not empty; store and redis healthy.
PatchTitles == {Nil, Ptr(""), Ptr("B")}
NextPatch ==
    \/ CreateTask("r1", "u1", "A", Ptr("d"), TRUE)
    \/ \E id \in TaskIds, t \in PatchTitles, d \in {JAbsent, JString("")},
          st \in {Nil, Ptr(StatusDone)} : UpdateTask("r1", "u1", id, t, d, st, TRUE)
    \/ UpdateTaskWrite("r1", TRUE)
    \/ \E d \in SUBSET (DOMAIN cache) : invalidateUserTasksCache("r1", TRUE, d)
    \/ \E id \in TaskIds : GetTask("r1", "u1", id, TRUE)
    \/ Return("r1")
SpecPatch == Init /\ [][NextPatch]_vars

\* ---------------------------------------------------------------- claims
Done(p, op) == pc[p] = "done" /\ req[p].op = op

StatusDomain == {"TO_DO", "IN_PROGRESS", "DONE"}

\* C1: a well-formed GetTask, UpdateTask or DeleteTask by a user for the id
\* of a task that another user owns is answered with 404 (store healthy).
C1_OwnershipIsolation ==
    \A p \in Procs :
        (/\ pc[p] = "done"
         /\ req[p].op \in {"GetTask", "UpdateTask", "DeleteTask"}
         /\ \E t \in tasks : t.id = req[p].id /\ t.user_id /= req[p].user
         /\ req[p].status = Nil \/ req[p].status[1] \in StatusDomain
         /\ ~loc[p].dbErr)
        => resp[p].code = StatusNotFound

\* C2: every task in a GetTask or GetTasks response delivered to a user, read
\* from the cache or from the store, was created with that user's user_id.
C2_OnlyOwnTasks ==
    \A p \in Procs :
        /\ (Done(p, "GetTasks") /\ resp[p].code = StatusOK)
            => \A i \in 1..Len(resp[p].list.tasks) :
                    owner[resp[p].list.tasks[i].id] = req[p].user
        /\ (Done(p, "GetTask") /\ resp[p].code = StatusOK)
            => owner[resp[p].task.id] = req[p].user

\* C2 witness: a list served from the cache with a task in it, while the
\* other user has a task in the store.
C2_Witness ==
    \E p \in Procs :
        /\ Done(p, "GetTasks") /\ resp[p].code = StatusOK
        /\ loc[p].read = "hit"
        /\ Len(resp[p].list.tasks) > 0
        /\ \E t \in tasks : t.user_id /= req[p].user

\* C3: a GetTasks of a user that starts after a successful write of that
\* user has returned never answers with a list computed from the store as
\* it was before that write (every cache call succeeding).
C3_CacheCoherence ==
    \A p \in Procs :
        (Done(p, "GetTasks") /\ resp[p].code = StatusOK /\ ~cacheFault)
        => loc[p].ver >= loc[p].startRet

\* C7: a GetTasks whose cache read missed, failed or returned a value that
\* does not deserialize, or whose cache write failed, answers what a direct
\* store read answers: 200 with a result of GetAll over the rows of the
\* store, or the repository error when the store read itself failed.
C7_CacheAdvisory ==
    \A p \in {"r1"} :
        (/\ Done(p, "GetTasks")
         /\ req[p].filter = "" \/ req[p].filter \in StatusDomain
         /\ loc[p].read \in {"miss", "error", "corrupt"} \/ loc[p].setErr)
        => IF loc[p].dbErr
           THEN resp[p].code = RepositoryError
           ELSE /\ resp[p].code = StatusOK
                /\ \E r \in GetAll(tasks, req[p].user, req[p].filter, req[p].page, req[p].limit) :
                       /\ resp[p].list.total = r.total
                       /\ resp[p].list.page = req[p].page
                       /\ resp[p].list.limit = req[p].limit
                       /\ Len(resp[p].list.tasks) = Len(r.rows)
                       /\ \A i \in 1..Len(r.rows) :
                              resp[p].list.tasks[i].id = r.rows[i].id

\* C7 witness: a list answered from the store with a task in it after the
\* cache returned an undeserializable value and the cache write failed.
C7_Witness ==
    \E p \in {"r1"} :
        /\ Done(p, "GetTasks") /\ resp[p].code = StatusOK
        /\ loc[p].read = "corrupt" /\ loc[p].setErr
        /\ Len(resp[p].list.tasks) > 0

\* C8: an update whose status is outside {TO_DO, IN_PROGRESS, DONE} is
\* answered 400 and writes nothing; every stored status is an enum value.
C8_StatusDomain ==
    /\ \A t \in tasks : t.status \in StatusDomain
    /\ \A p \in Procs :
          (/\ req[p].op = "UpdateTask"
           /\ req[p].status /= Nil /\ req[p].status[1] \notin StatusDomain)
          => /\ pc[p] \in {"done", "idle"}
             /\ pc[p] = "done" => (resp[p].code = StatusBadRequest /\ loc[p].ver = 0)

\* C8 witness: the owner's update of an existing task with status WAT has
\* been answered.
C8_Witness ==
    \E p \in Procs :
        /\ Done(p, "UpdateTask") /\ req[p].status = Ptr("WAT")
        /\ GetByID(tasks, req[p].id, req[p].user) /= {}

\* C10: list responses are ordered by created_at descending, and reads over
\* the same unchanged set of tasks agree on the order: the same page has the
\* same tasks and different pages share no task.
C10_StableOrder ==
    \A p, q \in Procs :
        (/\ Done(p, "GetTasks") /\ resp[p].code = StatusOK
         /\ Done(q, "GetTasks") /\ resp[q].code = StatusOK
         /\ req[p].user = req[q].user /\ req[p].filter = req[q].filter
         /\ req[p].limit = req[q].limit
         /\ loc[p].ver = loc[q].ver)
        => LET a == resp[p].list.tasks
               b == resp[q].list.tasks
           IN  /\ \A i, j \in 1..Len(a) : i < j => a[i].created_at >= a[j].created_at
               /\ req[p].page = req[q].page => a = b
               /\ req[p].page /= req[q].page =>
                     \A i \in 1..Len(a), j \in 1..Len(b) : a[i].id /= b[j].id

\* C4: on a fresh counter, with redis available, the requests one client IP
\* sends one after another within RateLimitWindow seconds: the first
\* RateLimitRequests reach the next handler, every later one is aborted
\* with 429.
C4_RateLimitEnvelope ==
    \A ip \in IPs :
        rlClean[ip] =>
            \A k \in 1..Len(rlHist[ip]) :
                rlHist[ip][k].t - rlHist[ip][1].t < RateLimitWindow
                => (rlHist[ip][k].out = "next" <=> k <= RateLimitRequests)

\* C4 witness: the (RateLimitRequests+1)-th request of such a window has been
\* answered 429 and did not reach a handler.
C4_Witness ==
    \E ip \in IPs, p \in Procs :
        /\ rlClean[ip]
        /\ Len(rlHist[ip]) = RateLimitRequests + 1
        /\ rpc[p] = "done" /\ rreq[p].ip = ip
        /\ rresp[p].code = StatusTooManyRequests /\ ~rresp[p].next

\* C5: every response the limiter rejects with 429 carries
\* X-RateLimit-Remaining: 0.
C5_RejectedHasRemainingZero ==
    \A p \in Procs :
        (rpc[p] = "done" /\ rresp[p].code = StatusTooManyRequests)
        => rresp[p].remaining = Ptr(0)

\* C6: a request during which redis was unavailable (no client, a failed
\* GET, a failed pipeline) reaches the next handler and gets no response
\* from the limiter.
C6_FailOpen ==
    \A p \in Procs :
        (rpc[p] = "done" /\ rreq[p].failed)
        => rresp[p].next /\ rresp[p].code = 0

\* C6 witness: a request whose pipeline failed after a successful GET has
\* passed the limiter, while the counter stands at the limit.
C6_Witness ==
    \E p \in Procs :
        /\ rpc[p] = "done" /\ rreq[p].failed /\ redisClient = "client"
        /\ rresp[p].next
        /\ rlKey[rreq[p].ip].n >= RateLimitRequests

\* C9: with N rows of the user matching the filter and limit L, a list read
\* answers total = N and total_pages = ceil(N / L); a page beyond total_pages
\* is empty; a page p within it holds rows (p-1)*L+1 .. min(p*L, N) of the
\* rows ordered by created_at descending.
C9_Pagination ==
    \A p \in Procs :
        (Done(p, "GetTasks") /\ resp[p].code = StatusOK)
        => LET r == resp[p].list
               L == req[p].limit
               P == req[p].page
               M == {t \in tasks : t.user_id = req[p].user
                                   /\ (req[p].filter = "" \/ t.status = req[p].filter)}
               N == Cardinality(M)
           IN  /\ L >= 1 /\ L <= 100
               /\ r.total = N
               /\ r.total_pages * L >= N /\ (r.total_pages - 1) * L < N
               /\ P > r.total_pages => r.tasks = <<>>
               /\ P <= r.total_pages =>
                     /\ Len(r.tasks) = Min(P * L, N) - (P - 1) * L
                     /\ \E ord \in Orderings(M) :
                            \A i \in 1..Len(r.tasks) : r.tasks[i].id = ord[(P - 1) * L + i].id

\* C9 witness: the last, partly filled page of a list of three rows.
C9_Witness ==
    \E p \in Procs :
        /\ Done(p, "GetTasks") /\ resp[p].code = StatusOK
        /\ resp[p].list.total = 3 /\ req[p].limit = 2 /\ req[p].page = 2
        /\ Len(resp[p].list.tasks) = 1 /\ resp[p].list.total_pages = 2

\* C13: an update leaves the fields its request does not supply as they
\* were in the stored task just before the write, in the store and in the
\* response.
C13_PartialUpdate ==
    \A p \in Procs :
        (Done(p, "UpdateTask") /\ resp[p].code = StatusOK)
        => LET old == loc[p].before
               new == UpdatedRow(old, loc[p].task)
           IN  /\ req[p].title = Nil =>
                     new.title = old.title /\ resp[p].task.title = old.title
               /\ req[p].descJSON = JAbsent =>
                     new.description = old.description
                     /\ resp[p].task.description = old.description
               /\ req[p].status = Nil =>
                     new.status = old.status /\ resp[p].task.status = old.status

\* C14: an update whose body has "description": null leaves the task
\* without description, in the store and in the response.
C14_NullClearsDescription ==
    \A p \in Procs :
        (Done(p, "UpdateTask") /\ resp[p].code = StatusOK /\ req[p].descJSON = JNull)
        => /\ UpdatedRow(loc[p].before, loc[p].task).description = Nil
           /\ resp[p].task.description = Nil

\* C11: a request to a task route whose Authorization header holds no
\* valid, unexpired token is answered 401 and no handler runs; a handler
\* that runs works under the auth_id of the validated token, and every task
\* it creates, returns, updates or deletes was created by that user.
C11_AuthRequired ==
    \A p \in Procs :
        LET h == actx[p].header
            tokenId == ValidateToken(Split(h)[2]).AuthId
        IN  /\ (actx[p].stage \in {"abort", "next"}
                /\ \A i \in 1..Len(h) : ValidateToken(<<h[i]>>).err)
               => /\ actx[p].stage = "abort" /\ actx[p].code = StatusUnauthorized
                  /\ pc[p] = "idle" /\ req[p] = NoReq
            /\ (actx[p].stage /= "off" /\ pc[p] \notin {"idle", "handler"})
               => /\ actx[p].stage = "next"
                  /\ Len(Split(h)) = 2 /\ ~ValidateToken(Split(h)[2]).err
                  /\ actx[p].user_id = tokenId /\ req[p].user = tokenId
                  /\ loc[p].task /= NoTask =>
                        loc[p].task.user_id = tokenId /\ owner[loc[p].task.id] = tokenId
                  /\ (pc[p] = "done" /\ resp[p].code \in {StatusOK, StatusCreated}) =>
                        /\ resp[p].task.id /= 0 => owner[resp[p].task.id] = tokenId
                        /\ \A i \in 1..Len(resp[p].list.tasks) :
                               owner[resp[p].list.tasks[i].id] = tokenId
                        /\ req[p].op = "DeleteTask" => owner[req[p].id] = tokenId

\* C11 witness: behind the middleware, u2's create has been answered 201
\* while u1 has a task in the store.
C11_Witness ==
    \E p \in Procs :
        /\ actx[p].stage = "next" /\ actx[p].user_id = "u2"
        /\ Done(p, "CreateTask") /\ resp[p].code = StatusCreated
        /\ \E t \in tasks : t.user_id = "u1"

\* C12: a request whose Authorization header is missing or does not start
\* with "Bearer " is answered 401 without its text being handed to token
\* validation, with a message other than the invalid-token message.
C12_BearerForm ==
    \A p \in Procs :
        (/\ actx[p].stage \in {"abort", "next"}
         /\ actx[p].header = <<>> \/ actx[p].header[1] /= Bearer)
        => /\ actx[p].stage = "abort" /\ actx[p].code = StatusUnauthorized
           /\ ~actx[p].validated
           /\ actx[p].msg /= "invalid token"

\* A Register request of slot p that passed validation has its response.
RegisterDone(p) ==
    /\ upc[p] = "done" /\ ureq[p].op = "Register"
    /\ ValidRegister(ureq[p].username, ureq[p].email, ureq[p].password)
EmailTaken(p) == \E u \in ureq[p].before : u.email = ureq[p].email
NameTaken(p) == \E u \in ureq[p].before : u.username = ureq[p].username

\* C15: with a healthy store, Register of an email that exists is answered 400
\* "user with this email already exists" (also when the username exists too),
\* Register of a free email and an existing username is answered 400
\* "username is already taken"; in both cases no user is created.
C15_RegisterDuplicates ==
    \A p \in Procs :
        (RegisterDone(p) /\ ~ureq[p].failed) =>
            /\ EmailTaken(p) =>
                   /\ uresp[p].code = 400
                   /\ uresp[p].msg = "user with this email already exists"
                   /\ users = ureq[p].before
            /\ (~EmailTaken(p) /\ NameTaken(p)) =>
                   /\ uresp[p].code = 400
                   /\ uresp[p].msg = "username is already taken"
                   /\ users = ureq[p].before
C15_Witness ==
    \E p \in Procs :
        /\ RegisterDone(p) /\ ~ureq[p].failed
        /\ EmailTaken(p) /\ NameTaken(p)
        /\ uresp[p].msg = "user with this email already exists"

\* C16: a request during which the lookup of an email or username failed in
\* the store is answered with a repository error (500): Register does not go
\* on to create the user and Login does not answer "invalid email or password".
C16_LookupFailureSurfaced ==
    \A p \in Procs :
        (upc[p] = "done" /\ ureq[p].failed) =>
            /\ uresp[p].code = 500
            /\ uresp[p].msg /= "invalid email or password"
            /\ users = ureq[p].before

\* C17: no two stored users have the same email and no two the same
\* username, whatever the interleaving of concurrent Register requests.
C17_UniqueUsers ==
    \A u \in users : \A v \in users :
        (u.email = v.email \/ u.username = v.username) => u = v
\* Two Register requests of one email both passed the checks, and one of
\* them has inserted its user.
C17_Witness ==
    \E p \in Procs : \E q \in Procs \ {p} :
        /\ ureq[p].op = "Register" /\ ureq[q].op = "Register"
        /\ ureq[p].email = ureq[q].email
        /\ ~EmailTaken(p) /\ ~EmailTaken(q)
        /\ upc[p] = "done" /\ uresp[p].code = StatusCreated
        /\ upc[q] = "done" /\ ureq[q].raced
        /\ \E u \in users : u.email = ureq[q].email

\* C18: a Register request whose insert collided with a unique index of the
\* store is answered 400 with the "already exists" message of that column.
C18_CollisionIsAlreadyExists ==
    \A p \in Procs :
        (upc[p] = "done" /\ ureq[p].op = "Register" /\ ureq[p].raced) =>
            /\ uresp[p].code = 400
            /\ uresp[p].msg \in {"user with this email already exists",
                                 "username is already taken"}

\* A Login request of slot p that passed validation has its response.
LoginDone(p) ==
    /\ upc[p] = "done" /\ ureq[p].op = "Login"
    /\ ValidLogin(ureq[p].email, ureq[p].password)
Unregistered(p) == ~\E u \in ureq[p].before : u.email = ureq[p].email
WrongPassword(p) ==
    \E u \in ureq[p].before :
        u.email = ureq[p].email /\ ~CompareHashAndPassword(u.password, ureq[p].password)

\* C19: a login with an unregistered email and a login with a registered
\* email and a wrong password get the same response (code, message, no
\* user), and neither gets a token.
C19_LoginFailureUniform ==
    \A p \in Procs : \A q \in Procs :
        (LoginDone(p) /\ Unregistered(p) /\ LoginDone(q) /\ WrongPassword(q)) =>
            /\ uresp[p] = uresp[q]
            /\ uresp[p].token = NoToken /\ uresp[q].token = NoToken
            /\ uresp[p].code = 400
C19_Witness ==
    \E p \in Procs : \E q \in Procs :
        /\ LoginDone(p) /\ Unregistered(p) /\ LoginDone(q) /\ WrongPassword(q)
        /\ uresp[q].msg = "invalid email or password"

\* An invalidation for user U runs in this step and every redis call of it
\* succeeds: inline at the end of a write of U, or by the worker on a message
\* that carries U.
InlineInvalidation(U) ==
    \E p \in Procs : /\ pc[p] = "invalidate" /\ pc'[p] = "done" /\ req[p].user = U
                     /\ cacheFault' = cacheFault
WorkerInvalidation(U) ==
    chan /= <<>> /\ Head(chan) = U /\ chan' = Tail(chan) /\ wrk'.ok

\* C20: an invalidation for user U removes every key tasks:<U>:... and
\* leaves the keys of every other user and every rate_limit key as they were.
C20_InvalidationFrame ==
    [][\A U \in Users :
          (InlineInvalidation(U) \/ WorkerInvalidation(U)) =>
              /\ \A k \in DOMAIN cache' : k[2] /= U
              /\ \A k \in DOMAIN cache :
                     k[2] /= U => (k \in DOMAIN cache' /\ cache'[k] = cache[k])
              /\ rlKey' = rlKey]_vars
\* The worker has served a message of u1 that removed keys of u1 while keys
\* of u2 and a rate_limit key were there, and they still are.
C20_Witness ==
    /\ wrk.payload = "u1" /\ wrk.ok /\ wrk.removed /= {} /\ wrk.others
    /\ \E k \in DOMAIN cache : k[2] = "u2"
    /\ \E ip \in IPs : rlKey[ip].n > 0
    /\ \A k \in DOMAIN cache : k[2] /= "u1"

\* The task the request names was never created with the caller's user_id.
NotForCaller(p) == owner[req[p].id] /= req[p].user

\* C21: a well-formed GetTask, UpdateTask or DeleteTask is answered 404 when
\* the task does not exist for the caller and the store is healthy, and 500
\* when the store fails: the two outcomes never carry the same status code.
C21_NotFoundVsStoreFailure ==
    \A p \in Procs :
        (/\ pc[p] = "done"
         /\ req[p].op \in {"GetTask", "UpdateTask", "DeleteTask"}
         /\ req[p].status = Nil \/ req[p].status[1] \in StatusDomain)
        => /\ loc[p].dbErr => resp[p].code = 500
           /\ (~loc[p].dbErr /\ NotForCaller(p)) => resp[p].code = 404

\* C22: whatever the page and limit parameters of a list request, the
\* service is called with page >= 1 and 1 <= limit <= 100, with page 1 and
\* limit 10 for an absent parameter, and a list response reports the page
\* and limit the service was called with.
C22_PageLimitClamp ==
    \A p \in Procs :
        req[p].op = "GetTasks" =>
            /\ req[p].page >= 1
            /\ req[p].limit >= 1 /\ req[p].limit <= 100
            /\ req[p].pageQ = Nil => req[p].page = 1
            /\ req[p].limitQ = Nil => req[p].limit = 10
            /\ (pc[p] = "done" /\ resp[p].code = StatusOK) =>
                   /\ resp[p].list.page = req[p].page
                   /\ resp[p].list.limit = req[p].limit
\* A list read with limit=101 and no page parameter was answered from the
\* cache.
C22_Witness ==
    \E p \in Procs :
        /\ Done(p, "GetTasks") /\ resp[p].code = StatusOK
        /\ req[p].pageQ = Nil /\ req[p].limitQ = Ptr(<<"1", "0", "1">>)
        /\ loc[p].read = "hit" /\ resp[p].list.limit = 10

\* C23: the rate limiter is entered after logger, recovery, CORS and
\* security headers, and auth after the rate limiter: an OPTIONS request is
\* answered 204 and never enters the rate limiter, and a request that auth
\* rejects was counted by the rate limiter before (redis working).
C23_ChainOrder ==
    \A p \in Procs :
        /\ (chain[p].stage /= "idle" /\ chain[p].method = "OPTIONS") =>
               /\ chain[p].code = 204
               /\ rpc[p] = "idle" /\ rreq[p] = NoRReq
               /\ actx[p] = NoCtx /\ pc[p] = "idle"
        /\ rpc[p] /= "idle" =>
               chain[p].ran = <<"LoggerMiddleware", "RecoveryMiddleware", "CORSMiddleware",
                                "SecurityHeadersMiddleware">>
        /\ actx[p].stage /= "idle" => (rpc[p] = "done" /\ rresp[p].next)
        /\ (actx[p].stage = "abort" /\ ~rreq[p].failed) =>
               /\ rresp[p].remaining /= Nil
               /\ rlKey[rreq[p].ip].n >= rreq[p].current + 1
\* One request was rejected by auth after the rate limiter counted it,
\* while an OPTIONS request was answered 204.
C23_Witness ==
    \E p \in Procs : \E q \in Procs :
        /\ actx[p].stage = "abort" /\ actx[p].code = 401 /\ ~rreq[p].failed
        /\ rlKey[rreq[p].ip].n >= 1
        /\ chain[q].method = "OPTIONS" /\ chain[q].stage = "done" /\ chain[q].code = 204

\* C24: when an update that sets only the title and an update that sets only
\* the status of the same task have both succeeded, the stored task carries
\* the title of the one and the status of the other.
C24_DisjointUpdatesMerge ==
    \A p \in Procs : \A q \in Procs \ {p} :
        (/\ Done(p, "UpdateTask") /\ resp[p].code = StatusOK
         /\ Done(q, "UpdateTask") /\ resp[q].code = StatusOK
         /\ req[p].id = req[q].id
         /\ req[p].title /= Nil /\ req[p].descJSON = JAbsent /\ req[p].status = Nil
         /\ req[q].title = Nil /\ req[q].descJSON = JAbsent /\ req[q].status /= Nil)
        => \E t \in tasks :
               /\ t.id = req[p].id
               /\ t.title = req[p].title[1]
               /\ t.status = req[q].status[1]

\* Requests of ip between their read of the count and their increment.
InFlight(ip) == {p \in Procs : rpc[p] = "incr" /\ rreq[p].ip = ip}

\* C25: every request the limiter counts read a count below
\* RateLimitRequests; the count can pass RateLimitRequests, and what it
\* reaches beyond it is at most the number of requests that were between
\* their read and their increment when it reached RateLimitRequests (at most
\* all the concurrent requests but one).
C25_OvershootBounded ==
    \A ip \in IPs :
        /\ \A p \in InFlight(ip) : rreq[p].current < RateLimitRequests
        /\ rlKey[ip].n + Cardinality(InFlight(ip)) <= RateLimitRequests + Cardinality(Procs) - 1
\* Two concurrent requests both read RateLimitRequests - 1 and were both
\* admitted: the count is RateLimitRequests + 1.
C25_Witness ==
    \E ip \in IPs :
        /\ rlKey[ip].n = RateLimitRequests + 1
        /\ \A p \in Procs :
               /\ rpc[p] = "done" /\ rreq[p].ip = ip /\ ~rreq[p].failed
               /\ rresp[p].next /\ rreq[p].current = RateLimitRequests - 1

\* C26: the expiry of the count of a client IP is set by the first request
\* counted in the window: a later request that is counted in the window
\* leaves the expiry where it was.
C26_FixedWindow ==
    [][\A ip \in IPs :
          (/\ rlKey[ip].n > 0 /\ rlKey[ip].exp >= 0
           /\ rlKey'[ip].n = rlKey[ip].n + 1)
          => rlKey'[ip].exp = rlKey[ip].exp]_vars

\* C27: the map of the in-memory limiter is never read or written while it
\* is being written, and every request of one IP that has its limiter holds
\* the limiter the map has for that IP.
C27_MapMutex ==
    /\ ~mrace
    /\ \A p \in Procs :
           mpc[p] \in {"allow", "done"} => mreq[p].limiter = limiters[mreq[p].ip]

\* Slot p takes the step named: its request is rejected with 429; it reads
\* the count; its INCR + EXPIRE pipeline succeeds.
RejectStep(p) == rpc[p] = "idle" /\ rpc'[p] = "done" /\ rresp'[p].code = StatusTooManyRequests
ReadStep(p) == rpc[p] = "idle" /\ rpc'[p] /= "idle"
CountStep(p) == rpc[p] = "incr" /\ rpc'[p] = "done" /\ ~rreq'[p].failed

\* C28: with redis available, a count is gone RateLimitWindow seconds after
\* the last request that was counted: a rejected request leaves count and
\* expiry as they are, a counted request sets the expiry RateLimitWindow
\* seconds ahead, a count does not outlive its expiry, and a request that
\* finds no count is admitted and counted as request 1.
C28_AdmittedAgain ==
    /\ [](\A ip \in IPs :
             (rlKey[ip].n > 0 /\ rlKey[ip].exp >= 0) =>
                 (now < rlKey[ip].exp /\ rlKey[ip].exp <= now + RateLimitWindow))
    /\ [][\A p \in Procs :
             /\ RejectStep(p) => rlKey' = rlKey
             /\ CountStep(p) => rlKey'[rreq[p].ip].exp = now + RateLimitWindow
             /\ (ReadStep(p) /\ ~rreq'[p].failed /\ rlKey[rreq'[p].ip].n = 0) =>
                    (rpc'[p] = "incr" /\ rreq'[p].current = 0)
             /\ (CountStep(p) /\ rlKey[rreq[p].ip].n = 0) =>
                    (rlKey'[rreq[p].ip].n = 1 /\ rresp'[p].next)]_vars
\* A request was rejected with 429, and a later request of the same IP,
\* after the count had expired, has been admitted as request 1.
C28_Witness ==
    \E p \in Procs : \E q \in Procs \ {p} :
        /\ rpc[q] = "done" /\ rresp[q].code = StatusTooManyRequests
        /\ rpc[p] = "done" /\ rresp[p].next /\ ~rreq[p].failed
        /\ rreq[p].ip = rreq[q].ip
        /\ rreq[p].t >= rreq[q].t + RateLimitWindow
        /\ rreq[p].current = 0 /\ rlKey[rreq[p].ip].n = 1

\* C29: the task in the response of a successful update equals the row the
\* update left in the store, in title, description and status.
C29_ResponseEqualsStored ==
    \A p \in Procs :
        (Done(p, "UpdateTask") /\ resp[p].code = StatusOK)
        => LET stored == UpdatedRow(loc[p].before, loc[p].task)
           IN  /\ resp[p].task.title = stored.title
               /\ resp[p].task.description = stored.description
               /\ resp[p].task.status = stored.status

====
